---- MODULE Spec2Model ----
(***************************************************************************)
(* Model of the question-answering pipeline of scripts/answer_question.py  *)
(* (retrieval, primary generation through the Ollama service, extractive   *)
(* fallback, answer post-processing) and of the settings of config.py.     *)
(*                                                                         *)
(* Texts are sequences of one-character strings, so that trimming,         *)
(* substring search, prefix tests and lengths are computed as the Python   *)
(* code computes them.                                                     *)
(***************************************************************************)
EXTENDS Integers, Sequences, FiniteSets, TLC

VARIABLES
    pc,                 \* position of the process in answer_question.py
    OLLAMA_AVAILABLE,   \* module flag set by the guarded import of requests
    Config,             \* the settings read from the environment by config.py
    question,           \* sys.argv[1]
    chunks,             \* the passage store loaded from chunks.pkl
    relevant_chunks,    \* what get_relevant_context returned to main
    cleaned_chunks,     \* generate_answer's filtered passages
    models,             \* the last model listing a call to /api/tags returned
    model_name,         \* the model generate_ollama_answer selected
    ollama_answer,      \* what generate_ollama_answer returned to generate_answer
    answer,             \* main's answer
    stdout,             \* everything written to standard output, in order
    stderr,             \* number of diagnostic lines written to standard error
    exit_code,          \* the process's exit status
    calls,              \* how often each collaborator was called in this run
    pp,                 \* post_process_answer applied once and twice to a text
    syn,                \* two fallback syntheses of the same question and passages
    ret,                \* one get_relevant_context call on an index result
    tr                  \* one truncation of a combined fallback text

vars == <<pc, OLLAMA_AVAILABLE, Config, question, chunks, relevant_chunks,
          cleaned_chunks, models, model_name, ollama_answer, answer, stdout,
          stderr, exit_code, calls, pp, syn, ret, tr>>

pipeVars == <<pc, OLLAMA_AVAILABLE, Config, question, chunks, relevant_chunks,
              cleaned_chunks, models, model_name, ollama_answer, answer, stdout,
              stderr, exit_code, calls>>

----------------------------------------------------------------------------
(* Characters and Python's str / re primitives.                            *)

UpperSeq == <<"A","B","C","D","E","F","G","H","I","J","K","L","M","N","O","P","Q","R","S","T","U","V","W","X","Y","Z">>
LowerSeq == <<"a","b","c","d","e","f","g","h","i","j","k","l","m","n","o","p","q","r","s","t","u","v","w","x","y","z">>
Digits == <<"0","1","2","3","4","5","6","7","8","9">>

Range(s) == {s[i] : i \in 1..Len(s)}

\* the lower-case letter of each upper-case letter
ToLower == [c \in Range(UpperSeq) |-> LowerSeq[CHOOSE i \in 1..Len(UpperSeq) : UpperSeq[i] = c]]

\* str.lower() on one character
LowerChar(c) == IF c \in DOMAIN ToLower THEN ToLower[c] ELSE c

\* str.lower()
Lower(s) == [i \in 1..Len(s) |-> LowerChar(s[i])]

\* the class \s of re, and the characters str.strip() removes
IsSpace(c) == c \in {" ", "\n", "\t"}

\* the class \w of re
WordChars == Range(UpperSeq) \cup Range(LowerSeq) \cup Range(Digits) \cup {"_"}

IsWordChar(c) == c \in WordChars

\* the class [.!?]
IsTerminator(c) == c \in {".", "!", "?"}

\* str.strip()
Strip(s) ==
    LET keep == {i \in 1..Len(s) : ~IsSpace(s[i])}
    IN  IF keep = {} THEN <<>>
        ELSE LET lo == CHOOSE i \in keep : \A j \in keep : i <= j
                 hi == CHOOSE i \in keep : \A j \in keep : j <= i
             IN  SubSeq(s, lo, hi)

\* the characters of s at the positions in keep, in order
AtPositions(s, keep) ==
    LET at == SelectSeq([i \in 1..Len(s) |-> i], LAMBDA i : i \in keep)
    IN  [k \in 1..Len(at) |-> s[at[k]]]

\* re.sub(r'\s+', ' ', s): each maximal run of white space becomes one space
CollapseSpaces(s) ==
    LET first(i) == ~(IsSpace(s[i]) /\ i > 1 /\ IsSpace(s[i-1]))
        t == [i \in 1..Len(s) |-> IF IsSpace(s[i]) THEN " " ELSE s[i]]
    IN  AtPositions(t, {i \in 1..Len(t) : first(i)})

\* re.sub(r'[.!?]{2,}', '.', s): each maximal run of two or more terminators
\* becomes one full stop
CollapseTerminators(s) ==
    LET inRun(i) == i >= 1 /\ i <= Len(s) /\ IsTerminator(s[i])
        first(i) == ~(inRun(i) /\ inRun(i-1))
        t == [i \in 1..Len(s) |-> IF inRun(i) /\ inRun(i+1) THEN "." ELSE s[i]]
    IN  AtPositions(t, {i \in 1..Len(t) : first(i)})

\* the str.replace calls of preprocess_text; a typographic character is written
\* by its code point, and the em dash becomes two characters
ReplaceTypographic(s) ==
    LET plain(c) ==
            CASE c \in {"u201c", "u201d"} -> "\""
              [] c \in {"u2018", "u2019"} -> "'"
              [] c \in {"u2013", "u2014"} -> "-"
              [] OTHER -> c
        twice == [k \in 1..(2 * Len(s)) |-> plain(s[(k + 1) \div 2])]
        keep(k) == k % 2 = 1 \/ s[k \div 2] = "u2014"
    IN  AtPositions(twice, {k \in 1..Len(twice) : keep(k)})

\* s.startswith(p)
StartsWith(s, p) == Len(p) <= Len(s) /\ SubSeq(s, 1, Len(p)) = p

\* s.endswith(('.', '!', '?'))
EndsWithTerminator(s) == Len(s) > 0 /\ IsTerminator(s[Len(s)])

\* p in s
Contains(s, p) == \E i \in 0..(Len(s) - Len(p)) : SubSeq(s, i + 1, i + Len(p)) = p

\* s.rfind(c) as a 0-based index, -1 when c does not occur
RFind(s, c) ==
    LET at == {i \in 1..Len(s) : s[i] = c}
    IN  IF at = {} THEN -1 ELSE (CHOOSE i \in at : \A j \in at : j <= i) - 1

\* sep.join(list)
Join(sep, list) ==
    LET f[i \in 0..Len(list)] ==
            IF i = 0 THEN <<>>
            ELSE IF i = 1 THEN list[1] ELSE f[i-1] \o sep \o list[i]
    IN  f[Len(list)]

\* set(re.findall(r'\b\w+\b', s)): the maximal runs of word characters
Words(s) ==
    LET word(i) == i >= 1 /\ i <= Len(s) /\ IsWordChar(s[i])
        starts == {i \in 1..Len(s) : word(i) /\ ~word(i - 1)}
        ends == {j \in 1..Len(s) : word(j) /\ ~word(j + 1)}
    IN  {SubSeq(s, i, CHOOSE j \in ends : j >= i /\ \A e \in ends : e >= i => j <= e) :
            i \in starts}

\* the sequences of at most n elements of S
SeqsUpTo(S, n) == UNION {[1..k -> S] : k \in 0..n}

\* the texts made of at most n of the given pieces
RECURSIVE TextsOf(_, _)
TextsOf(pieces, n) ==
    IF n = 0 THEN {<<>>}
    ELSE LET shorter == TextsOf(pieces, n - 1)
         IN  shorter \cup {p \o t : p \in pieces, t \in shorter}

----------------------------------------------------------------------------
(* preprocess_text and post_process_answer.                                *)

preprocess_text(text) ==
    CollapseTerminators(ReplaceTypographic(CollapseSpaces(Strip(text))))

redundant_phrases == <<
    <<"B","a","s","e","d"," ","o","n"," ","t","h","e"," ","p","r","o","v","i","d","e","d"," ","c","o","n","t","e","x","t",",">>,
    <<"A","c","c","o","r","d","i","n","g"," ","t","o"," ","t","h","e"," ","c","o","n","t","e","x","t",",">>,
    <<"F","r","o","m"," ","t","h","e"," ","c","o","n","t","e","x","t",",">>,
    <<"T","h","e"," ","c","o","n","t","e","x","t"," ","s","h","o","w","s"," ","t","h","a","t">>,
    <<"B","a","s","e","d"," ","o","n"," ","t","h","e"," ","i","n","f","o","r","m","a","t","i","o","n"," ","p","r","o","v","i","d","e","d",",">> >>

\* the loop over redundant_phrases: the first phrase the text starts with is
\* removed and the loop ends
StripFirstPhrase(a) ==
    LET hit == {k \in 1..Len(redundant_phrases) : StartsWith(a, redundant_phrases[k])}
    IN  IF hit = {} THEN a
        ELSE LET k == CHOOSE k \in hit : \A m \in hit : k <= m
             IN  Strip(SubSeq(a, Len(redundant_phrases[k]) + 1, Len(a)))

post_process_answer(raw) ==
    LET a == CollapseSpaces(Strip(raw))
        b == IF a # <<>> /\ ~EndsWithTerminator(a) THEN Append(a, ".") ELSE a
    IN  StripFirstPhrase(b)

----------------------------------------------------------------------------
(* generate_improved_answer: the extractive fallback.                      *)

stop_words == {
    <<"w","h","a","t">>,
    <<"h","o","w">>,
    <<"w","h","y">>,
    <<"w","h","e","n">>,
    <<"w","h","e","r","e">>,
    <<"i","s">>,
    <<"a","r","e">>,
    <<"t","h","e">>,
    <<"a">>,
    <<"a","n">>,
    <<"a","n","d">>,
    <<"o","r">>,
    <<"b","u","t">>,
    <<"i","n">>,
    <<"o","n">>,
    <<"a","t">>,
    <<"t","o">>,
    <<"f","o","r">>,
    <<"o","f">>,
    <<"w","i","t","h">>,
    <<"b","y">> }

MsgNoChunks == <<"I"," ","c","o","u","l","d","n","'","t"," ","f","i","n","d"," ","a","n","y"," ","r","e","l","e","v","a","n","t"," ","i","n","f","o","r","m","a","t","i","o","n"," ","i","n"," ","t","h","e"," ","u","p","l","o","a","d","e","d"," ","d","o","c","u","m","e","n","t","s"," ","t","o"," ","a","n","s","w","e","r"," ","y","o","u","r"," ","q","u","e","s","t","i","o","n",".">>
MsgNoSpecific == <<"I"," ","c","o","u","l","d","n","'","t"," ","f","i","n","d"," ","s","p","e","c","i","f","i","c"," ","i","n","f","o","r","m","a","t","i","o","n"," ","r","e","l","a","t","e","d"," ","t","o"," ","y","o","u","r"," ","q","u","e","s","t","i","o","n"," ","i","n"," ","t","h","e"," ","u","p","l","o","a","d","e","d"," ","d","o","c","u","m","e","n","t","s",".">>
LeadIn == <<"B","a","s","e","d"," ","o","n"," ","t","h","e"," ","a","v","a","i","l","a","b","l","e"," ","i","n","f","o","r","m","a","t","i","o","n",":"," ">>
Ellipsis == <<".",".",".">>

\* question_words: the question's lower-cased words without the stop words
question_words(q) == Words(Lower(q)) \ stop_words

\* the orders in which list(question_words) can enumerate the set: the order of
\* a set of strings follows the strings' hashes, which Python salts per process
Enumerations(S) ==
    {o \in [1..Cardinality(S) -> S] : \A i, j \in 1..Cardinality(S) : o[i] = o[j] => i = j}

\* s[:m]
Prefix(s, m) ==
    IF m >= 0 THEN SubSeq(s, 1, IF m < Len(s) THEN m ELSE Len(s))
    ELSE SubSeq(s, 1, IF Len(s) + m > 0 THEN Len(s) + m ELSE 0)

Max3(a, b, c) == IF a >= b /\ a >= c THEN a ELSE IF b >= c THEN b ELSE c

\* exact_phrases: the windows order[i:j] whose words, joined by spaces, occur
\* in the passage
exact_phrases(order, chunk_lower) ==
    Cardinality({ij \in (0..Len(order)) \X (0..Len(order)) :
        /\ ij[1] < ij[2]
        /\ Contains(chunk_lower, Join(<<" ">>, SubSeq(order, ij[1] + 1, ij[2])))})

\* twice total_score (word_overlap + phrase_matches * 0.5 + exact_phrases * 2),
\* to stay in the integers
total_score2(order, chunk) ==
    LET qw == Range(order)
        chunk_lower == Lower(chunk)
        word_overlap == Cardinality(qw \cap Words(chunk_lower))
        phrase_matches == Cardinality({w \in qw : Contains(chunk_lower, w)})
    IN  2 * word_overlap + phrase_matches + 4 * exact_phrases(order, chunk_lower)

\* the positions of list in the order list.sort(key=..., reverse=...) leaves
\* them: by key, equal keys in their original order
SortedPositions(key, descending) ==
    LET n == Len(key)
        before(m, k) ==
            \/ (IF descending THEN key[m] > key[k] ELSE key[m] < key[k])
            \/ (key[m] = key[k] /\ m < k)
        rank(k) == Cardinality({m \in 1..n : before(m, k)}) + 1
    IN  [r \in 1..n |-> CHOOSE k \in 1..n : rank(k) = r]

scored_chunks(order, cleaned) == [k \in 1..Len(cleaned) |-> total_score2(order, cleaned[k])]

\* relevant_chunks of generate_improved_answer: of the four best passages,
\* those with a positive score
ranked_chunks(order, cleaned) ==
    LET score == scored_chunks(order, cleaned)
        at == SortedPositions(score, TRUE)
        top == SubSeq(at, 1, IF Len(at) < 4 THEN Len(at) ELSE 4)
        kept == SelectSeq(top, LAMBDA k : score[k] > 0)
    IN  [r \in 1..Len(kept) |-> cleaned[kept[r]]]

\* the limits up to 1000 for which the floating-point product max_length * 0.7
\* is just below the integer 7 * max_length / 10 (90 * 0.7 is
\* 62.99999999999999); for every other limit up to 1000 the product compares
\* with an integer as the exact value does
SeventyPercentRoundsDown ==
    {90, 170, 180} \cup {10 * k : k \in 33..36} \cup {10 * k : k \in 65..73}

\* sentence_end > max_length * 0.7
PastSeventyPercent(sentence_end, max_length) ==
    \/ 10 * sentence_end > 7 * max_length
    \/ (max_length \in SeventyPercentRoundsDown /\ 10 * sentence_end = 7 * max_length)

\* sentence_end: the last terminator of combined_text[:max_length], 0-based,
\* -1 when there is none
sentence_end(combined_text, max_length) ==
    LET truncated == Prefix(combined_text, max_length)
    IN  Max3(RFind(truncated, "."), RFind(truncated, "!"), RFind(truncated, "?"))

\* the truncation with the cut taken before the terminator
truncate_combined_before_terminator(combined_text, max_length) ==
    IF Len(combined_text) > max_length
    THEN IF PastSeventyPercent(sentence_end(combined_text, max_length), max_length)
         THEN Prefix(combined_text, sentence_end(combined_text, max_length))
         ELSE Prefix(combined_text, max_length) \o Ellipsis
    ELSE combined_text

\* the truncation of the combined text to max_length
truncate_combined(combined_text, max_length) ==
    IF Len(combined_text) > max_length
    THEN IF PastSeventyPercent(sentence_end(combined_text, max_length), max_length)
         THEN Prefix(combined_text, sentence_end(combined_text, max_length) + 1)
         ELSE Prefix(combined_text, max_length) \o Ellipsis
    ELSE combined_text

\* order is list(question_words) of the question
generate_improved_answer(cleaned, order, max_length) ==
    IF cleaned = <<>> THEN MsgNoChunks
    ELSE LET relevant == ranked_chunks(order, cleaned)
         IN  IF relevant = <<>> THEN MsgNoSpecific
             ELSE post_process_answer(LeadIn \o
                    truncate_combined(CollapseSpaces(Join(<<" ">>, relevant)), max_length))

----------------------------------------------------------------------------
(* get_relevant_context: what it does with the index's answer.             *)

\* a hit is one (id, distance) pair of index.search; a distance is a number of
\* the same unit as RELEVANCE_THRESHOLD

\* the guard on the id: only the upper bound is tested
WithinStore(i, store) == i < Len(store)

\* chunks[i] raises IndexError: Python counts a negative index from the end
\* of the list, and one below -len(chunks) is out of range
IndexError(i, store) == i < -Len(store)

\* chunks[i]
ChunkAt(i, store) == IF i >= 0 THEN store[i + 1] ELSE store[Len(store) + i + 1]

\* the relevance test with the threshold itself let through
RelevantOrEqual(distance, threshold) == distance <= threshold

\* the relevance test on a hit's distance
Relevant(distance, threshold) == distance < threshold

\* the loop raises at the first hit it looks up outside the list
RetrievalRaises(hits, store) ==
    \E k \in 1..Len(hits) : WithinStore(hits[k].id, store) /\ IndexError(hits[k].id, store)

\* relevant_chunks after the sort: the (content, distance) pairs of the hits
\* kept, by ascending distance, equal distances in the index's order
relevant_pairs(hits, store, threshold) ==
    LET kept == SelectSeq([k \in 1..Len(hits) |-> k],
                    LAMBDA k : /\ WithinStore(hits[k].id, store)
                               /\ Relevant(hits[k].distance, threshold))
        at == SortedPositions([r \in 1..Len(kept) |-> hits[kept[r]].distance], FALSE)
    IN  [r \in 1..Len(kept) |->
            [content |-> preprocess_text(ChunkAt(hits[kept[at[r]]].id, store)),
             distance |-> hits[kept[at[r]]].distance]]

\* the texts get_relevant_context returns
get_relevant_context(hits, store, threshold) ==
    LET pairs == relevant_pairs(hits, store, threshold)
    IN  [r \in 1..Len(pairs) |-> pairs[r].content]

----------------------------------------------------------------------------
(* The Ollama client: check_ollama_availability and generate_ollama_answer. *)

model_priorities == <<
    <<"l","l","a","m","a","3",".","2",":","1","b">>,
    <<"m","i","s","t","r","a","l",":","7","b">>,
    <<"m","i","s","t","r","a","l",":","l","a","t","e","s","t">> >>

mistral == <<"m","i","s","t","r","a","l">>

\* priority_model in model.get("name", "").lower()
NameContains(name, id) == Contains(Lower(name), id)

\* mistral_models: the listed models whose name contains "mistral"
mistral_models(listing) == SelectSeq(listing, LAMBDA name : NameContains(name, mistral))

\* the model generate_ollama_answer selects from a listing: the two nested
\* loops over model_priorities and the listing, then the first Mistral model;
\* the empty name stands for None
select_model(listing) ==
    LET hit(p) == {k \in 1..Len(listing) : NameContains(listing[k], model_priorities[p])}
        found == {p \in 1..Len(model_priorities) : hit(p) # {}}
    IN  IF found # {}
        THEN LET p == CHOOSE p \in found : \A o \in found : p <= o
             IN  listing[CHOOSE k \in hit(p) : \A o \in hit(p) : k <= o]
        ELSE IF mistral_models(listing) # <<>> THEN mistral_models(listing)[1] ELSE <<>>

\* what a function returned: None, or a text
None == [state |-> "none", text |-> <<>>]
Text(t) == [state |-> "text", text |-> t]
\* generate_answer's local answer before generate_ollama_answer is called
Unbound == [state |-> "unbound", text |-> <<>>]

\* the responses of the service: the call raised (connection refused, timeout),
\* a status other than 200, a 200 whose body is not the expected JSON, or a
\* 200 with the expected body
Raised == [kind |-> "raised", body |-> <<>>]
Status500 == [kind |-> "status", body |-> <<>>]
Malformed == [kind |-> "malformed", body |-> <<>>]
Ok(body) == [kind |-> "ok", body |-> body]

\* check_ollama_availability's result for a response to GET /api/tags
tags_available(response) ==
    response.kind = "ok" /\ mistral_models(response.body) # <<>>

\* generate_ollama_answer returning the error line as its answer on a status
\* other than 200
generate_result_error_text(response) ==
    CASE response.kind = "ok" -> Text(post_process_answer(Strip(response.body)))
      [] response.kind = "status" -> Text(<<"O","l","l","a","m","a"," ","A","P","I"," ","e","r","r","o","r",".">>)
      [] OTHER -> None

\* what generate_ollama_answer returns for a response to POST /api/generate
generate_result(response) ==
    IF response.kind = "ok"
    THEN Text(post_process_answer(Strip(response.body)))
    ELSE None

\* the test "is not None" in place of the truth test
NotNone(r) == r.state = "text"

\* Python's truth test on generate_ollama_answer's result: None and the empty
\* string are false
Truthy(r) == r.state = "text" /\ r.text # <<>>

----------------------------------------------------------------------------
(* generate_answer's filter and main's messages.                           *)

MsgNoRelevant == <<"N","o"," ","r","e","l","e","v","a","n","t"," ","i","n","f","o","r","m","a","t","i","o","n"," ","f","o","u","n","d"," ","i","n"," ","t","h","e"," ","u","p","l","o","a","d","e","d"," ","d","o","c","u","m","e","n","t","s",".">>
MsgInsufficient == <<"I"," ","c","o","u","l","d","n","'","t"," ","f","i","n","d"," ","s","u","f","f","i","c","i","e","n","t"," ","r","e","l","e","v","a","n","t"," ","i","n","f","o","r","m","a","t","i","o","n"," ","i","n"," ","t","h","e"," ","u","p","l","o","a","d","e","d"," ","d","o","c","u","m","e","n","t","s"," ","t","o"," ","a","n","s","w","e","r"," ","y","o","u","r"," ","q","u","e","s","t","i","o","n",".">>
ErrQuestionRequired == <<"Q","u","e","s","t","i","o","n"," ","a","r","g","u","m","e","n","t"," ","r","e","q","u","i","r","e","d">>
ErrNoEmbeddings == <<"N","o"," ","e","m","b","e","d","d","i","n","g","s"," ","f","o","u","n","d","."," ","P","l","e","a","s","e"," ","u","p","l","o","a","d"," ","a","n","d"," ","p","r","o","c","e","s","s"," ","d","o","c","u","m","e","n","t","s"," ","f","i","r","s","t",".">>
ErrIncomplete == <<"E","m","b","e","d","d","i","n","g","s"," ","a","r","e"," ","i","n","c","o","m","p","l","e","t","e","."," ","P","l","e","a","s","e"," ","r","e","-","p","r","o","c","e","s","s"," ","y","o","u","r"," ","d","o","c","u","m","e","n","t","s",".">>
ErrIndex == <<"l","i","s","t"," ","i","n","d","e","x"," ","o","u","t"," ","o","f"," ","r","a","n","g","e">>
RequestsNotice == <<"R","e","q","u","e","s","t","s"," ","l","i","b","r","a","r","y"," ","n","o","t"," ","a","v","a","i","l","a","b","l","e","."," ","I","n","s","t","a","l","l"," ","w","i","t","h",":"," ","p","i","p"," ","i","n","s","t","a","l","l"," ","r","e","q","u","e","s","t","s">>

\* the length test of generate_answer on a normalized passage
Substantial(clean_text, min_chunk_length) == Len(clean_text) > min_chunk_length

\* cleaned_chunks: the normalized passages that pass the length test
clean_chunks(context_chunks, min_chunk_length) ==
    SelectSeq([k \in 1..Len(context_chunks) |-> preprocess_text(context_chunks[k])],
              LAMBDA t : Substantial(t, min_chunk_length))

\* print(json.dumps({key: value})) and a plain print(text), as items of stdout
Json(key, value) == [json |-> TRUE, key |-> key, value |-> value]
Plain(text) == [json |-> FALSE, key |-> "", value |-> text]

\* one call to a collaborator, as the run's log keeps it
Call(to, outcome) == [to |-> to, outcome |-> outcome]

CallsTo(log, to) == Cardinality({k \in 1..Len(log) : log[k].to = to})

----------------------------------------------------------------------------
(* The values of the variables a specification does not use.              *)

\* what one run of generate_improved_answer computes
Synthesis(cleaned, order, max_length) ==
    [order |-> order,
     scores |-> scored_chunks(order, cleaned),
     ranked |-> ranked_chunks(order, cleaned),
     answer |-> generate_improved_answer(cleaned, order, max_length)]

\* two finished runs on no passages
SynIdle ==
    [at |-> 2, question |-> <<>>, passages |-> <<>>, max_length |-> 0,
     first |-> Synthesis(<<>>, <<>>, 0), second |-> Synthesis(<<>>, <<>>, 0)]

\* a finished call on an index that returned nothing
RetIdle ==
    [at |-> 1, threshold |-> 0, chunks |-> <<>>, hits |-> <<>>,
     raised |-> FALSE, pairs |-> <<>>, result |-> <<>>]

\* a finished truncation of the empty text
TrIdle == [at |-> 1, combined_text |-> <<>>, max_length |-> 1, result |-> <<>>]

Idle == "idle"

\* post_process_answer already applied twice to the empty text
PostIdle == [at |-> 2, x |-> <<>>, once |-> <<>>, twice |-> <<>>]

\* Config before config.py is imported
NoConfig ==
    [USE_OLLAMA |-> FALSE, MAX_ANSWER_LENGTH |-> 0, MIN_CHUNK_LENGTH |-> 0,
     TOP_K_CHUNKS |-> 0, RELEVANCE_THRESHOLD |-> 0]

\* the process before it has run any of answer_question.py
Fresh ==
    /\ OLLAMA_AVAILABLE = FALSE /\ Config = NoConfig /\ question = <<>>
    /\ chunks = <<>> /\ relevant_chunks = <<>> /\ cleaned_chunks = <<>>
    /\ models = <<>> /\ model_name = <<>> /\ ollama_answer = Unbound /\ answer = <<>>
    /\ stdout = <<>> /\ stderr = 0 /\ exit_code = 0 /\ calls = <<>>

PipeIdle == pc = Idle /\ Fresh

----------------------------------------------------------------------------
(* One run of the command-line program.                                    *)

MaxModels == 2

\* settings the environment can give config.py: both values of USE_OLLAMA, and
\* lengths, count and threshold on the scale of the short texts used here
\* (config.py's defaults are 800, 100, 12 and 1.5)
PipeConfigs ==
    [USE_OLLAMA : BOOLEAN, MAX_ANSWER_LENGTH : {15}, MIN_CHUNK_LENGTH : {8},
     TOP_K_CHUNKS : {2}, RELEVANCE_THRESHOLD : {2}]

Questions == {
    <<"W","h","a","t"," ","i","s"," ","A","I"," ","M","L","?">>,
    <<"W","h","y"," ","p","a","s","t","a","?">> }

\* the passage stores chunks.pkl can hold: none, or three raw passages, of
\* which the second is exactly MIN_CHUNK_LENGTH characters long
PipeStores == {
    <<>>,
    << <<"A","I"," ","M","L"," ","o","k",".">>,
       <<"m","l"," ","a","i"," ","i","s">>,
       <<"M","L"," "," ","A","I"," ","n","o",".",".">> >> }

\* the answers index.search can give: TOP_K_CHUNKS hits, an id of -1 where the
\* index has no further neighbour
PipeHits(k) == [1..k -> [id : -1..2, distance : 0..2]]

ModelNames == {
    <<"l","l","a","m","a","3",".","2",":","1","b">>,
    <<"M","i","s","t","r","a","l",":","7","B">>,
    <<"m","i","s","t","r","a","l","-","n","e","m","o">>,
    <<"p","h","i","3">> }

TagsResponses ==
    {Raised, Status500, Malformed} \cup {Ok(l) : l \in SeqsUpTo(ModelNames, MaxModels)}

GenerateTexts == {
    <<>>,
    <<" "," ">>,
    <<"Y","e","s">>,
    <<"F","r","o","m"," ","t","h","e"," ","c","o","n","t","e","x","t",","," ","A","I",".">> }

GenerateResponses == {Raised, Status500, Malformed} \cup {Ok(t) : t \in GenerateTexts}

Init ==
    /\ pc = "import" /\ Fresh
    /\ pp = PostIdle /\ syn = SynIdle /\ ret = RetIdle /\ tr = TrIdle

\* main's handler of an exception: the error object is printed and the
\* process exits with status 1
Fail(message) ==
    /\ stdout' = Append(stdout, Json("error", message))
    /\ exit_code' = 1
    /\ pc' = "exit"

\* the module is loaded: config.py reads the settings, and the guarded import
\* of requests sets OLLAMA_AVAILABLE and prints a notice when it fails
ImportModule ==
    /\ pc = "import"
    /\ \E cfg \in PipeConfigs, installed \in BOOLEAN :
          /\ Config' = cfg
          /\ OLLAMA_AVAILABLE' = installed
          /\ stdout' = IF installed THEN stdout ELSE Append(stdout, Plain(RequestsNotice))
    /\ pc' = "main"
    /\ UNCHANGED <<question, chunks, relevant_chunks, cleaned_chunks, models, model_name,
                   ollama_answer, answer, stderr, exit_code, calls, pp, syn, ret, tr>>

\* main checks the argument count and takes the question
MainArguments ==
    /\ pc = "main"
    /\ \E argc \in 1..3 :
          IF argc # 2
          THEN /\ Fail(ErrQuestionRequired)
               /\ UNCHANGED question
          ELSE /\ \E q \in Questions : question' = q
               /\ pc' = "load"
               /\ UNCHANGED <<stdout, exit_code>>
    /\ UNCHANGED <<OLLAMA_AVAILABLE, Config, chunks, relevant_chunks, cleaned_chunks, models,
                   model_name, ollama_answer, answer, stderr, calls, pp, syn, ret, tr>>

\* load_embeddings: the directory or one of its two files may be missing
LoadEmbeddings ==
    /\ pc = "load"
    /\ \E found \in {"none", "incomplete", "complete"} :
          CASE found = "none" -> Fail(ErrNoEmbeddings) /\ UNCHANGED chunks
            [] found = "incomplete" -> Fail(ErrIncomplete) /\ UNCHANGED chunks
            [] OTHER -> /\ \E store \in PipeStores : chunks' = store
                        /\ pc' = "retrieve"
                        /\ UNCHANGED <<stdout, exit_code>>
    /\ UNCHANGED <<OLLAMA_AVAILABLE, Config, question, relevant_chunks, cleaned_chunks, models,
                   model_name, ollama_answer, answer, stderr, calls, pp, syn, ret, tr>>

\* main calls get_relevant_context on what the index answers
RetrieveContext ==
    /\ pc = "retrieve"
    /\ \E hits \in PipeHits(Config.TOP_K_CHUNKS) :
          IF RetrievalRaises(hits, chunks)
          THEN /\ Fail(ErrIndex)
               /\ calls' = Append(calls, Call("index", "raised"))
               /\ UNCHANGED relevant_chunks
          ELSE /\ relevant_chunks' = get_relevant_context(hits, chunks, Config.RELEVANCE_THRESHOLD)
               /\ calls' = Append(calls, Call("index", "ok"))
               /\ pc' = "branch"
               /\ UNCHANGED <<stdout, exit_code>>
    /\ UNCHANGED <<OLLAMA_AVAILABLE, Config, question, chunks, cleaned_chunks, models,
                   model_name, ollama_answer, answer, stderr, pp, syn, ret, tr>>

\* main without its branch on an empty retrieval: generate_answer is called on
\* the empty list and answers that the information is insufficient
NoRelevantChunksGenerates ==
    /\ pc = "branch"
    /\ relevant_chunks = <<>>
    /\ answer' = MsgInsufficient
    /\ pc' = "print"
    /\ UNCHANGED <<OLLAMA_AVAILABLE, Config, question, chunks, relevant_chunks, cleaned_chunks,
                   models, model_name, ollama_answer, stdout, stderr, exit_code, calls,
                   pp, syn, ret, tr>>

\* main's branch on an empty retrieval
NoRelevantChunks ==
    /\ pc = "branch"
    /\ relevant_chunks = <<>>
    /\ answer' = MsgNoRelevant
    /\ pc' = "print"
    /\ UNCHANGED <<OLLAMA_AVAILABLE, Config, question, chunks, relevant_chunks, cleaned_chunks,
                   models, model_name, ollama_answer, stdout, stderr, exit_code, calls,
                   pp, syn, ret, tr>>

\* generate_answer up to the assembly of the context
FilterChunks ==
    /\ pc = "branch"
    /\ relevant_chunks # <<>>
    /\ cleaned_chunks' = clean_chunks(relevant_chunks, Config.MIN_CHUNK_LENGTH)
    /\ IF cleaned_chunks' = <<>>
       THEN answer' = MsgInsufficient /\ pc' = "print"
       ELSE UNCHANGED answer /\ pc' = "check"
    /\ UNCHANGED <<OLLAMA_AVAILABLE, Config, question, chunks, relevant_chunks, models,
                   model_name, ollama_answer, stdout, stderr, exit_code, calls, pp, syn, ret, tr>>

\* check_ollama_availability: without requests no call is made; every other
\* path writes one line to stderr
CheckAvailability ==
    /\ pc = "check"
    /\ IF ~OLLAMA_AVAILABLE
       THEN /\ pc' = "fallback"
            /\ UNCHANGED <<models, stderr, calls>>
       ELSE \E response \in TagsResponses :
               /\ calls' = Append(calls, Call("tags", response.kind))
               /\ models' = IF response.kind = "ok" THEN response.body ELSE models
               /\ stderr' = stderr + 1
               /\ pc' = IF tags_available(response) THEN "list" ELSE "fallback"
    /\ UNCHANGED <<OLLAMA_AVAILABLE, Config, question, chunks, relevant_chunks, cleaned_chunks,
                   model_name, ollama_answer, answer, stdout, exit_code, pp, syn, ret, tr>>

\* generate_ollama_answer up to the choice of the model: it returns None on a
\* status other than 200, on an exception (logged), and when no model is chosen
ListModels ==
    /\ pc = "list"
    /\ \E response \in TagsResponses :
          /\ calls' = Append(calls, Call("tags", response.kind))
          /\ IF response.kind = "ok"
             THEN /\ models' = response.body
                  /\ model_name' = select_model(response.body)
                  /\ IF model_name' = <<>>
                     THEN ollama_answer' = None /\ pc' = "returned"
                     ELSE UNCHANGED ollama_answer /\ pc' = "generate"
                  /\ UNCHANGED stderr
             ELSE /\ ollama_answer' = None
                  /\ pc' = "returned"
                  /\ stderr' = IF response.kind = "status" THEN stderr ELSE stderr + 1
                  /\ UNCHANGED <<models, model_name>>
    /\ UNCHANGED <<OLLAMA_AVAILABLE, Config, question, chunks, relevant_chunks, cleaned_chunks,
                   answer, stdout, exit_code, pp, syn, ret, tr>>

\* generate_ollama_answer's call to /api/generate and what it returns
Generate ==
    /\ pc = "generate"
    /\ \E response \in GenerateResponses :
          /\ calls' = Append(calls, Call("generate", response.kind))
          /\ ollama_answer' = generate_result(response)
    /\ stderr' = stderr + 1
    /\ pc' = "returned"
    /\ UNCHANGED <<OLLAMA_AVAILABLE, Config, question, chunks, relevant_chunks, cleaned_chunks,
                   models, model_name, answer, stdout, exit_code, pp, syn, ret, tr>>

\* generate_answer on generate_ollama_answer's result: a true value is the
\* answer, anything else is logged and leads to the fallback
PrimaryReturned ==
    /\ pc = "returned"
    /\ IF Truthy(ollama_answer)
       THEN answer' = ollama_answer.text /\ pc' = "print" /\ UNCHANGED stderr
       ELSE stderr' = stderr + 1 /\ pc' = "fallback" /\ UNCHANGED answer
    /\ UNCHANGED <<OLLAMA_AVAILABLE, Config, question, chunks, relevant_chunks, cleaned_chunks,
                   models, model_name, ollama_answer, stdout, exit_code, calls, pp, syn, ret, tr>>

\* generate_answer's last line: the extractive fallback on the cleaned chunks
Fallback ==
    /\ pc = "fallback"
    /\ \E order \in Enumerations(question_words(question)) :
          answer' = generate_improved_answer(cleaned_chunks, order, Config.MAX_ANSWER_LENGTH)
    /\ calls' = Append(calls, Call("fallback", "ok"))
    /\ pc' = "print"
    /\ UNCHANGED <<OLLAMA_AVAILABLE, Config, question, chunks, relevant_chunks, cleaned_chunks,
                   models, model_name, ollama_answer, stdout, stderr, exit_code, pp, syn, ret, tr>>

\* main prints the result and returns
PrintResult ==
    /\ pc = "print"
    /\ stdout' = Append(stdout, Json("answer", answer))
    /\ pc' = "exit"
    /\ UNCHANGED <<OLLAMA_AVAILABLE, Config, question, chunks, relevant_chunks, cleaned_chunks,
                   models, model_name, ollama_answer, answer, stderr, exit_code, calls,
                   pp, syn, ret, tr>>

Next ==
    \/ ImportModule
    \/ MainArguments
    \/ LoadEmbeddings
    \/ RetrieveContext
    \/ NoRelevantChunks
    \/ FilterChunks
    \/ CheckAvailability
    \/ ListModels
    \/ Generate
    \/ PrimaryReturned
    \/ Fallback
    \/ PrintResult

Spec == Init /\ [][Next]_vars

----------------------------------------------------------------------------
(* Properties of a run of the program.                                     *)

Exited == pc = "exit"

\* get_relevant_context returned to main
Retrieved == \E k \in 1..Len(calls) : calls[k] = Call("index", "ok")

\* a call to the generation service failed: it raised (unreachable, timeout),
\* answered with a status other than 200, or with a malformed body
ServiceFailed ==
    \E k \in 1..Len(calls) : calls[k].to \in {"tags", "generate"} /\ calls[k].outcome # "ok"

FallbackCalled == CallsTo(calls, "fallback") > 0

\* the run ended by printing its answer, with exit status 0
AnswerPrinted ==
    /\ Exited /\ exit_code = 0
    /\ stdout # <<>> /\ stdout[Len(stdout)] = Json("answer", answer)
    /\ \A k \in 1..Len(stdout) : stdout[k].key # "error"

\* the answers the fallback produces for the run's question and the given
\* passages, over the orders the keyword set can be enumerated in
FallbackAnswers(passages) ==
    {generate_improved_answer(passages, order, Config.MAX_ANSWER_LENGTH) :
        order \in Enumerations(question_words(question))}

C3_StdoutOneJsonObject ==
    Exited =>
        /\ Len(stdout) = 1
        /\ stdout[1].json
        /\ \/ stdout[1].key = "answer" /\ exit_code = 0
           \/ stdout[1].key = "error" /\ exit_code = 1

\* what a run prints as its answer for the given retrieved passages when the
\* generate call returns HTTP 500
AnswersOnHttp500(retrieved) ==
    IF retrieved = <<>> THEN {MsgNoRelevant}
    ELSE IF clean_chunks(retrieved, Config.MIN_CHUNK_LENGTH) = <<>> THEN {MsgInsufficient}
    ELSE FallbackAnswers(clean_chunks(retrieved, Config.MIN_CHUNK_LENGTH))

\* C4: with the primary generation disabled through USE_OLLAMA, the run's
\* output is the output of the run in which the generate call returns HTTP 500
\* on the same question and retrieved passages, whatever the service does.
C4_DisabledEqualsHttp500 ==
    (Exited /\ exit_code = 0 /\ ~Config.USE_OLLAMA) =>
        stdout[Len(stdout)].value \in AnswersOnHttp500(relevant_chunks)

\* the model the selection policy names for a listing: the first model that
\* contains the earliest preferred identifier any model contains, else the
\* first model that contains the fallback keyword
PolicyCandidates(listing) ==
    LET preferred(p) == {k \in 1..Len(listing) : Contains(Lower(listing[k]), model_priorities[p])}
        keyword == {k \in 1..Len(listing) : Contains(Lower(listing[k]), mistral)}
    IN  IF \E p \in 1..Len(model_priorities) : preferred(p) # {}
        THEN preferred(CHOOSE p \in 1..Len(model_priorities) :
                 preferred(p) # {} /\ \A o \in 1..(p - 1) : preferred(o) = {})
        ELSE keyword

\* C5: in a run that reaches the primary generation step and whose model
\* listings succeed, the generate call uses the model the policy names, and it
\* is skipped only when the listing holds neither a preferred model nor one
\* with the fallback keyword.
C5_ModelSelection ==
    LET listed == CallsTo(calls, "tags") > 0 /\
                  \A k \in 1..Len(calls) : calls[k].to = "tags" => calls[k].outcome = "ok"
        candidates == PolicyCandidates(models)
    IN  /\ (listed /\ CallsTo(calls, "generate") > 0) =>
              /\ candidates # {}
              /\ model_name = models[CHOOSE k \in candidates : \A o \in candidates : k <= o]
        /\ (listed /\ pc \in {"returned", "fallback", "print", "exit"}
                   /\ CallsTo(calls, "generate") = 0) =>
              candidates = {}

\* C9: generate_answer hands on exactly the passages whose normalized length
\* is at least MIN_CHUNK_LENGTH: shorter ones are dropped, and none of length
\* MIN_CHUNK_LENGTH or more is.
C9_KeepsAtLeastMinLength ==
    (relevant_chunks # <<>> /\ pc # "branch") =>
        cleaned_chunks =
            SelectSeq([k \in 1..Len(relevant_chunks) |-> preprocess_text(relevant_chunks[k])],
                      LAMBDA t : Len(t) >= Config.MIN_CHUNK_LENGTH)

----------------------------------------------------------------------------
(* post_process_answer on bounded texts.                                   *)

MaxPieces == 4

PostPieces == {redundant_phrases[1], redundant_phrases[3], <<" ">>, <<"x">>, <<".">>}

PostInputs == TextsOf(PostPieces, MaxPieces)

InitPost ==
    /\ PipeIdle
    /\ syn = SynIdle /\ ret = RetIdle /\ tr = TrIdle
    /\ \E x \in PostInputs : pp = [at |-> 0, x |-> x, once |-> <<>>, twice |-> <<>>]

PostOnce ==
    /\ pp.at = 0
    /\ pp' = [pp EXCEPT !.at = 1, !.once = post_process_answer(pp.x)]
    /\ UNCHANGED <<pipeVars, syn, ret, tr>>

PostTwice ==
    /\ pp.at = 1
    /\ pp' = [pp EXCEPT !.at = 2, !.twice = post_process_answer(pp.once)]
    /\ UNCHANGED <<pipeVars, syn, ret, tr>>

NextPost == PostOnce \/ PostTwice

SpecPost == InitPost /\ [][NextPost]_vars

\* C6: post_process_answer is idempotent: applying it to its own result changes
\* nothing, also for a text that begins with one lead-in phrase followed by
\* another and for a text that is only a lead-in phrase.
C6_PostProcessIdempotent == pp.at = 2 => pp.twice = pp.once

----------------------------------------------------------------------------
(* Two runs of the fallback on the same question and passages.             *)

MaxPassages == 2

SynQuestions == {
    <<"n","e","u","r","a","l"," ","n","e","t","w","o","r","k">>,
    <<"W","h","a","t"," ","i","s"," ","A","I","?">> }

SynPassages == {
    <<"a"," ","n","e","t","w","o","r","k"," ","n","e","u","r","a","l",".">>,
    <<"b"," ","N","e","u","r","a","l"," ","n","e","t","w","o","r","k",".">>,
    <<"a","i">> }

SynMaxLengths == {20, 800}

InitSynth ==
    /\ PipeIdle
    /\ pp = PostIdle /\ ret = RetIdle /\ tr = TrIdle
    /\ \E q \in SynQuestions, ps \in SeqsUpTo(SynPassages, MaxPassages), m \in SynMaxLengths :
          syn = [at |-> 0, question |-> q, passages |-> ps, max_length |-> m,
                 first |-> Synthesis(<<>>, <<>>, 0), second |-> Synthesis(<<>>, <<>>, 0)]

SynthesizeFirst ==
    /\ syn.at = 0
    /\ \E order \in Enumerations(question_words(syn.question)) :
          syn' = [syn EXCEPT !.at = 1,
                             !.first = Synthesis(syn.passages, order, syn.max_length)]
    /\ UNCHANGED <<pipeVars, pp, ret, tr>>

SynthesizeSecond ==
    /\ syn.at = 1
    /\ \E order \in Enumerations(question_words(syn.question)) :
          syn' = [syn EXCEPT !.at = 2,
                             !.second = Synthesis(syn.passages, order, syn.max_length)]
    /\ UNCHANGED <<pipeVars, pp, ret, tr>>

NextSynth == SynthesizeFirst \/ SynthesizeSecond

SpecSynth == InitSynth /\ [][NextSynth]_vars

\* C7: the fallback is deterministic: two runs on the identical question and
\* the identical ordered passage list, under the same configuration, compute
\* the same per-passage scores, the same ranked order of kept passages and the
\* same final answer, whatever order each run enumerates the keyword set in.
C7_FallbackDeterministic ==
    syn.at = 2 =>
        /\ syn.first.scores = syn.second.scores
        /\ syn.first.ranked = syn.second.ranked
        /\ syn.first.answer = syn.second.answer

----------------------------------------------------------------------------
(* One call of get_relevant_context on an arbitrary index answer.          *)

MaxHits == 2

MaxDistance == 2

HitIds == -3..2

Distances == 0..MaxDistance

Thresholds == 0..(MaxDistance + 1)

Hits == [id : HitIds, distance : Distances]

\* passage stores of 0, 1 and 2 raw passages
RetStores == {
    <<>>,
    << <<"a","i"," "," ","i","s",".","."," ","x","u2014">> >>,
    << <<"a","i"," "," ","i","s",".","."," ","x","u2014">>, <<" ","m","l","!">> >> }

InitRetrieve ==
    /\ PipeIdle
    /\ pp = PostIdle /\ syn = SynIdle /\ tr = TrIdle
    /\ \E t \in Thresholds, store \in RetStores, hits \in SeqsUpTo(Hits, MaxHits) :
          ret = [at |-> 0, threshold |-> t, chunks |-> store, hits |-> hits,
                 raised |-> FALSE, pairs |-> <<>>, result |-> <<>>]

Retrieve ==
    /\ ret.at = 0
    /\ IF RetrievalRaises(ret.hits, ret.chunks)
       THEN ret' = [ret EXCEPT !.at = 1, !.raised = TRUE]
       ELSE ret' = [ret EXCEPT !.at = 1,
                        !.pairs = relevant_pairs(ret.hits, ret.chunks, ret.threshold),
                        !.result = get_relevant_context(ret.hits, ret.chunks, ret.threshold)]
    /\ UNCHANGED <<pipeVars, pp, syn, tr>>

NextRetrieve == Retrieve

SpecRetrieve == InitRetrieve /\ [][NextRetrieve]_vars

\* C8: for every threshold and every list of (id, distance) hits, each passage
\* text get_relevant_context returns comes from a hit whose distance is
\* strictly below the threshold; a hit at or above the threshold is never
\* returned.
C8_ReturnedBelowThreshold ==
    (ret.at = 1 /\ ~ret.raised) =>
        /\ Len(ret.result) = Len(ret.pairs)
        /\ \A r \in 1..Len(ret.result) :
              /\ ret.result[r] = ret.pairs[r].content
              /\ ret.pairs[r].distance < ret.threshold
              /\ \E k \in 1..Len(ret.hits) :
                    /\ ret.hits[k].distance = ret.pairs[r].distance
                    /\ WithinStore(ret.hits[k].id, ret.chunks)
                    /\ ret.result[r] = preprocess_text(ChunkAt(ret.hits[k].id, ret.chunks))

\* a call that returned a passage although another hit was at the threshold
C8_Witness ==
    /\ ret.at = 1 /\ ~ret.raised
    /\ Len(ret.result) >= 1
    /\ \E k \in 1..Len(ret.hits) :
          WithinStore(ret.hits[k].id, ret.chunks) /\ ret.hits[k].distance = ret.threshold

----------------------------------------------------------------------------
(* The truncation step of generate_improved_answer on bounded texts.       *)

MaxText == 6

\* a letter, the separator the passages are joined with, and two terminators
TruncAlphabet == {<<"a">>, <<" ">>, <<".">>, <<"?">>}

\* the combined texts of at most MaxText characters: the passages reach the
\* fallback normalized by preprocess_text and are joined by single spaces, so a
\* combined text is not empty and preprocess_text leaves it as it is
ShortTexts == {t \in TextsOf(TruncAlphabet, MaxText) : t # <<>> /\ preprocess_text(t) = t}

ShortLimits == 1..MaxText

Repeat(c, n) == [i \in 1..n |-> c]

\* combined texts of more than a hundred characters whose only terminator
\* within the limit stands at, just before or just after 70% of the limit
LongTexts ==
    {Repeat("a", p) \o <<c>> \o Repeat("a", 40) :
        p \in {62, 63, 64, 70, 71}, c \in {".", "!"}}

\* a limit whose floating-point 70% is below the exact one, and one whose is not
LongLimits == {90, 100}

TruncInputs == (ShortTexts \X ShortLimits) \cup (LongTexts \X LongLimits)

InitTruncate ==
    /\ PipeIdle
    /\ pp = PostIdle /\ syn = SynIdle /\ ret = RetIdle
    /\ \E input \in TruncInputs :
          tr = [at |-> 0, combined_text |-> input[1], max_length |-> input[2], result |-> <<>>]

Truncate ==
    /\ tr.at = 0
    /\ tr' = [tr EXCEPT !.at = 1,
                        !.result = truncate_combined(tr.combined_text, tr.max_length)]
    /\ UNCHANGED <<pipeVars, pp, syn, ret>>

NextTruncate == Truncate

SpecTruncate == InitTruncate /\ [][NextTruncate]_vars

\* the 1-based positions of the terminators among the first m characters
TerminatorsWithin(text, m) ==
    {i \in 1..(IF m < Len(text) THEN m ELSE Len(text)) : IsTerminator(text[i])}

\* the combined text is longer than the limit and a terminator within the
\* limit stands past 70% of the limit (as a 0-based index, as the code counts)
SentenceCut ==
    /\ Len(tr.combined_text) > tr.max_length
    /\ \E i \in TerminatorsWithin(tr.combined_text, tr.max_length) :
          10 * (i - 1) > 7 * tr.max_length

EndsWithEllipsis(s) ==
    Len(s) >= Len(Ellipsis) /\ SubSeq(s, Len(s) - Len(Ellipsis) + 1, Len(s)) = Ellipsis

\* C11: for every combined fallback text and every positive MAX_ANSWER_LENGTH,
\* the truncated text (before the lead-in is added) is never longer than
\* MAX_ANSWER_LENGTH plus the three characters of the ellipsis marker; when the
\* truncation cuts at a sentence terminator found past 70% of the limit, the
\* result is the text up to and including the last terminator within the
\* limit: it ends with that terminator and carries no ellipsis.
C11_TruncationBounded ==
    tr.at = 1 =>
        /\ Len(tr.result) <= tr.max_length + Len(Ellipsis)
        /\ SentenceCut =>
              LET last == CHOOSE i \in TerminatorsWithin(tr.combined_text, tr.max_length) :
                              \A j \in TerminatorsWithin(tr.combined_text, tr.max_length) : j <= i
              IN  /\ tr.result = SubSeq(tr.combined_text, 1, last)
                  /\ Len(tr.result) <= tr.max_length
                  /\ IsTerminator(tr.result[Len(tr.result)])
                  /\ ~EndsWithEllipsis(tr.result)

\* a text longer than its limit that was cut at a terminator past 70% of the
\* limit, with text left out after the cut
C11_Witness ==
    /\ tr.at = 1 /\ SentenceCut
    /\ Len(tr.result) < Len(tr.combined_text)
    /\ IsTerminator(tr.result[Len(tr.result)])

----------------------------------------------------------------------------
(* get_relevant_context on hits whose id is outside the passage store.     *)

\* the valid ids of a store of N passages: 0..N-1
InRange(i, store) == i >= 0 /\ i < Len(store)

\* C12: for any list of (id, distance) hits and any passage store of N
\* passages, get_relevant_context silently skips every hit whose id lies
\* outside 0..N-1 (negative ids and N = 0 included): the call raises no error,
\* and every returned text is the normalized text of the passage stored at an
\* in-range returned id whose distance is below the threshold.
C12_OutOfRangeSkipped ==
    ret.at = 1 =>
        /\ ~ret.raised
        /\ \A r \in 1..Len(ret.result) :
              \E k \in 1..Len(ret.hits) :
                 /\ InRange(ret.hits[k].id, ret.chunks)
                 /\ ret.hits[k].distance < ret.threshold
                 /\ ret.result[r] = preprocess_text(ret.chunks[ret.hits[k].id + 1])

====
